---------------------------- MODULE Spec2Model ----------------------------
(***************************************************************************)
(* A model of github.com/savaki/ddb: the expression builder                *)
(* (expression.go), the operation builders' sticky error (Update, Query)   *)
(* and the transactional coordinator (ddb.go).                             *)
(*                                                                         *)
(* Text is a sequence of one-character strings, so that parsing,           *)
(* formatting and trimming are computed character by character.            *)
(***************************************************************************)
EXTENDS Integers, Sequences, FiniteSets, TLC

(***************************************************************************)
(* Bounds of the model.                                                    *)
(***************************************************************************)
\* clause-adding calls made on one builder
MaxCalls == 2

(***************************************************************************)
(* Text helpers.                                                           *)
(***************************************************************************)
Digits == <<"0", "1", "2", "3", "4", "5", "6", "7", "8", "9">>

\* strconv.Itoa / strconv.FormatInt(id, 10) of a non-negative number
RECURSIVE Itoa(_)
Itoa(n) ==
    IF n < 10 THEN <<Digits[n + 1]>>
    ELSE Itoa(n \div 10) \o <<Digits[(n % 10) + 1]>>

Lower == {"a", "b", "c", "d", "e", "f", "g", "h", "i", "j", "k", "l", "m",
          "n", "o", "p", "q", "r", "s", "t", "u", "v", "w", "x", "y", "z"}
Upper == {"A", "B", "C", "D", "E", "F", "G", "H", "I", "J", "K", "L", "M",
          "N", "O", "P", "Q", "R", "S", "T", "U", "V", "W", "X", "Y", "Z"}

isAlphaNumeric(r) ==
    \/ r \in Lower
    \/ r \in Upper
    \/ r \in {Digits[i] : i \in 1..10}

WhiteSpace == {" ", "\t", "\n", "\r"}

RECURSIVE TrimLeft(_)
TrimLeft(s) ==
    IF s # <<>> /\ Head(s) \in WhiteSpace THEN TrimLeft(Tail(s)) ELSE s

RECURSIVE TrimRight(_)
TrimRight(s) ==
    IF s # <<>> /\ s[Len(s)] \in WhiteSpace
    THEN TrimRight(SubSeq(s, 1, Len(s) - 1))
    ELSE s

\* strings.TrimSpace
TrimSpace(s) == TrimRight(TrimLeft(s))

SetMin(S) == CHOOSE x \in S : \A y \in S : x <= y

(***************************************************************************)
(* Errors.  An error value is a record; NilErr is Go's nil error.  code is *)
(* what Code() reports ("" for an error made by fmt.Errorf).               *)
(***************************************************************************)
NilErr == [code |-> "nil", msg |-> "", a |-> 0, b |-> 0]

ErrInvalidFieldName == "InvalidFieldName"
ErrMismatchedValueCount == "MismatchedValueCount"

\* hasError: the error carries the code (the errors of the model wrap none)
hasError(x, code) == x # NilErr /\ x.code = code

IsMismatchedValueCountError(x) == hasError(x, ErrMismatchedValueCount)

IsInvalidFieldNameError(x) == hasError(x, ErrInvalidFieldName)

\* errorf(ErrMismatchedValueCount, "not enough values")
ErrNotEnoughValues ==
    [code |-> ErrMismatchedValueCount, msg |-> "not enough values", a |-> 0, b |-> 0]

\* fmt.Errorf("expected value[%v] to be a string", index)
ErrExpectedString(i) ==
    [code |-> "", msg |-> "expected value to be a string", a |-> i, b |-> 0]

\* fmt.Errorf("unable to marshal value: %v", err)
ErrUnableToMarshal ==
    [code |-> "", msg |-> "unable to marshal value", a |-> 0, b |-> 0]

\* fmt.Errorf("mismatched number of values; got %v, want %v", got, want)
ErrMismatched(got, want) ==
    [code |-> "", msg |-> "mismatched number of values", a |-> got, b |-> want]

(***************************************************************************)
(* Native values handed to a clause call, and their marshalling.           *)
(***************************************************************************)
GoString(s) == [t |-> "string", s |-> s, n |-> 0]
GoInt(n)    == [t |-> "int", s |-> <<>>, n |-> n]
GoChan      == [t |-> "chan", s |-> <<>>, n |-> 0]
GoNil       == [t |-> "nil", s |-> <<>>, n |-> 0]

\* marshal: a string becomes S, a number becomes N carried as its decimal
\* text, nil becomes NULL, a channel cannot be marshalled
marshal(item) ==
    CASE item.t = "string" -> [err |-> NilErr, av |-> [tag |-> "S", val |-> item.s]]
      [] item.t = "int"    -> [err |-> NilErr, av |-> [tag |-> "N", val |-> Itoa(item.n)]]
      [] item.t = "nil"    -> [err |-> NilErr, av |-> [tag |-> "NULL", val |-> <<>>]]
      [] OTHER             -> [err |-> ErrUnableToMarshal, av |-> [tag |-> "NULL", val |-> <<>>]]

(***************************************************************************)
(* The table schemas a builder may be created against.                     *)
(***************************************************************************)
NoAttributes == <<>>

ExampleAttributes ==
    << [FieldName |-> <<"I", "D">>, AttributeName |-> <<"i", "d">>],
       [FieldName |-> <<"a">>,      AttributeName |-> <<"a">>] >>

Schemas == {NoAttributes, ExampleAttributes}

(***************************************************************************)
(* Inputs of the clause calls.                                             *)
(***************************************************************************)
\* the clause calls a run draws from: a template and the values handed to it
Call(expr, args) == [expr |-> expr, args |-> args]

ClauseInputs ==
    { \* "#ID = ?": a reference by field name and one value
      Call(<<"#", "I", "D", " ", "=", " ", "?">>, <<GoInt(12)>>),
      \* "#id=#ID": the same attribute by wire name and by field name
      Call(<<"#", "i", "d", "=", "#", "I", "D">>, <<>>),
      \* "#?=?": a dynamic name and a value
      Call(<<"#", "?", "=", "?">>, <<GoString(<<"I", "D">>), GoInt(12)>>),
      \* "#?=?": a dynamic name that is no string
      Call(<<"#", "?", "=", "?">>, <<GoInt(12), GoInt(12)>>),
      \* "#a=?,#b=?": one value too few
      Call(<<"#", "a", "=", "?", ",", "#", "b", "=", "?">>, <<GoInt(7)>>),
      \* "a=b ": one value too many
      Call(<<"a", "=", "b", " ">>, <<GoString(<<"x">>)>>),
      \* "#a=?": a value that cannot be marshalled
      Call(<<"#", "a", "=", "?">>, <<GoChan>>),
      \* "a=b ": no placeholder
      Call(<<"a", "=", "b", " ">>, <<>>),
      \* "#b": a static name no attribute of the example schema has
      Call(<<"#", "b">>, <<>>),
      \* " ": a blank template
      Call(<<" ">>, <<>>) }

(***************************************************************************)
(* State.                                                                  *)
(***************************************************************************)
VARIABLES
    \* expression (expression.go:27-39)
    attributes,     \* e.attributes: the schema's attribute specs
    Names,          \* e.Names: alias -> wire attribute name
    Values,         \* e.Values: alias -> AttributeValue
    index,          \* e.index: the value alias counter
    Adds, Conditions, Deletes, Filters, Removes, Sets,
    \* operation builder
    err,            \* the builder's err field
    op,             \* the builder's type: "update", "delete", "put", "query", "scan"
    \* observations of the run
    calls,          \* clause-adding calls made so far
    failures,       \* the errors of the failing clause calls, in call order
    history,        \* the template, the values and the error of every clause call
    refs,           \* <<name looked up, wire name, alias rendered>> of every name reference
    bound,          \* the AttributeValues bound so far, in binding order
    boundAlias,     \* the alias each of them was given
    output,         \* what the last terminal call returned
    sent            \* the first request the terminal call handed to the backend

exprVars == <<attributes, Names, Values, index,
              Adds, Conditions, Deletes, Filters, Removes, Sets>>
builderVars == <<err, op>>
obsVars == <<calls, failures, history, refs, bound, boundAlias, output, sent>>

\* the transactional coordinator (ddb.go)
VARIABLES
    txKind,         \* "write": TransactWriteItemsWithContext, "get": TransactGetItemsWithContext,
                    \* "plain": Get.ScanWithContext of the builder items[1]
    txAttempts,     \* d.txAttempts
    items,          \* the WriteTx / GetTx arguments, in order
    backend,        \* the fake backend: backend[i] is its answer to the i-th call
    ctxDone,        \* the caller's context is cancelled
    pc,             \* where the coordinator is: "start", "call", "wait", "done"
    attempt,        \* the loop variable
    input,          \* the request built before the loop
    lastErr,        \* err of the attempt being classified
    e,              \* var e error
    ret,            \* what the call returned
    \* observations of the run
    tokenCalls,     \* invocations of d.tokenFunc
    requests,       \* the input of every backend call, in order
    waits,          \* the timeouts waited in full, in order
    decoded,        \* the Decode calls made: the builder and the response it was given
    cancelledAt     \* where the coordinator was, and the backend calls made, when
                    \* the context was cancelled

txVars == <<txKind, txAttempts, items, backend, ctxDone, pc, attempt, input,
            lastErr, e, ret, tokenCalls, requests, waits, decoded, cancelledAt>>

\* the segmented scan (Scan.EachWithContext and Scan.scanSegment)
VARIABLES
    sErr,           \* s.err: the scan builder's err field
    totalSegments,  \* s.totalSegments
    segments,       \* the table: segments[w] is the item count of every page of segment w
    scanPc,         \* where EachWithContext is: "start", "wait" (wg.Wait), "done"
    workers,        \* the goroutine of every segment: where it is, the pages it
                    \* fetched, the items left in its page, what scanSegment returned
    ctxCancelled,   \* cancel() of context.WithCancel(ctx) was called
    errs,           \* the buffer of the errs channel
    scanRet,        \* what EachWithContext returned
    tableReadUnits  \* s.table.ReadUnits

scanVars == <<sErr, totalSegments, segments, scanPc, workers, ctxCancelled,
              errs, scanRet, tableReadUnits>>

\* one ConsumedCapacity and the goroutines that call add and safeClone on it.
\* Capacity is counted in half units: 1 is the 0.5 of an eventually consistent read.
VARIABLES
    capIn,          \* capIn[a]: the *ConsumedCapacity argument of goroutine a's add
    capPc,          \* where goroutine a's add is
    mux,            \* c.mux: the goroutine that holds it
    loaded,         \* the c.capacityUnits goroutine a read for its +=
    ReadUnits,      \* c.ReadUnits (whole units)
    WriteUnits,     \* c.WriteUnits (whole units)
    capacityUnits,  \* c.capacityUnits (half units)
    clonePc,        \* where the goroutine that calls safeClone is
    clones,         \* the safeClone calls made
    snapshot        \* what the last safeClone returned

capVars == <<capIn, capPc, mux, loaded, ReadUnits, WriteUnits, capacityUnits,
             clonePc, clones, snapshot>>

\* a paged query (Query.EachWithContext) and the query that resumes it.  The
\* items of the full result are 1..qTotal; a key is the number of the last
\* item evaluated, 0 the nil key.
VARIABLES
    qErr,           \* q.err
    qLimit,         \* q.limit
    qCapture,       \* q.request # nil: a capture was supplied with ConsumedCapacity
    qTotal,         \* the items the key condition matches
    qPageSize,      \* the items the backend puts on one page when no Limit is sent
    qRun,           \* 1: the first query, 2: the query started from the reported key
    qPc,            \* where EachWithContext is: "start", "call", "items", "done"
    qStartKey,      \* the local startKey
    qLeft,          \* the items of output.Items not yet handed to the callback
    qRet,           \* what the calls of EachWithContext returned, in order
    qReported,      \* *q.lastEvaluatedKey
    delivered,      \* the items handed to the callback, in order, by both queries
    qResponses,     \* the successful backend responses
    qTableUnits,    \* q.table: the capacity units added to the table's accumulator
    qRequestUnits   \* q.request: the capacity units added to the capture

queryVars == <<qErr, qLimit, qCapture, qTotal, qPageSize, qRun, qPc, qStartKey,
               qLeft, qRet, qReported, delivered, qResponses, qTableUnits,
               qRequestUnits>>

vars == <<exprVars, builderVars, obsVars, txVars, scanVars, capVars, queryVars>>

\* a *strings.Builder field: nil until the clause method allocates it
NilBuilder == [alloc |-> FALSE, text |-> <<>>]
NewBuilder == [alloc |-> TRUE, text |-> <<>>]

(***************************************************************************)
(* expression.addExpressionAttributeName.  The scan of e.Names is a Go map *)
(* range, whose order is unspecified: when several aliases hold the name,  *)
(* any of them may be returned, so the result is a set of outcomes.        *)
(***************************************************************************)
NameKey(n) == <<"#", "n">> \o Itoa(n)

\* the wire name stored for a new alias: the first attribute whose wire
\* name or field name is the name, else the name itself
ResolveName(attrs, name) ==
    LET match == {i \in 1..Len(attrs) :
                    name \in {attrs[i].AttributeName, attrs[i].FieldName}}
    IN  IF match # {} THEN attrs[SetMin(match)].AttributeName ELSE name

\* the aliases the "use existing attribute name" scan may return
ExistingNameKeys(names, name) == {k \in DOMAIN names : names[k] = name}

addExpressionAttributeName(names, attrs, name) ==
    LET existing == ExistingNameKeys(names, name)
        key      == NameKey(Cardinality(DOMAIN names) + 1)
    IN  IF existing # {}
        THEN {[Names |-> names, key |-> k, real |-> names[k]] : k \in existing}
        ELSE {[Names |-> names @@ (key :> ResolveName(attrs, name)),
               key   |-> key,
               real  |-> ResolveName(attrs, name)]}

(***************************************************************************)
(* expression.addExpressionAttributeValue                                  *)
(***************************************************************************)
ValueKey(id) == <<":", "v">> \o Itoa(id)

NextValueId(idx) == idx + 1

\* mutant: an equal value already bound is given its old alias again
addExpressionAttributeValueReuse(values, idx, item) ==
    LET same == {k \in DOMAIN values : values[k] = item}
        id   == NextValueId(idx)
    IN  IF same # {}
        THEN [Values |-> values, index |-> idx, key |-> CHOOSE k \in same : TRUE]
        ELSE [Values |-> values @@ (ValueKey(id) :> item), index |-> id,
              key |-> ValueKey(id)]

addExpressionAttributeValue(values, idx, item) ==
    LET id == NextValueId(idx)
    IN  [Values |-> values @@ (ValueKey(id) :> item), index |-> id, key |-> ValueKey(id)]

(***************************************************************************)
(* expression.parse.  The parser's locals and the expression's maps as the *)
(* loop runs; err # NilErr is the early return, which keeps whatever was   *)
(* written to e.Names and e.Values before it.                              *)
(***************************************************************************)
ParseStart(names, values, idx) ==
    [inName |-> FALSE, index |-> 0, buf |-> <<>>, bufName |-> <<>>,
     Names |-> names, Values |-> values, vidx |-> idx,
     refs |-> {}, bound |-> <<>>, boundAlias |-> <<>>, err |-> NilErr]

\* key := e.addExpressionAttributeName(name); buf.WriteString(key);
\* inName = false; bufName.Reset()
EmitName(ps, name, attrs) ==
    { [ps EXCEPT !.Names = r.Names,
                 !.buf = @ \o r.key,
                 !.inName = FALSE,
                 !.bufName = <<>>,
                 !.refs = @ \cup {<<name, r.real, r.key>>}]
      : r \in addExpressionAttributeName(ps.Names, attrs, name) }

\* the `switch v` of the loop body (expression.go:258-279)
SwitchRune(ps, v, args) ==
    CASE v = "?" ->
           IF ps.index >= Len(args)
           THEN [ps EXCEPT !.err = ErrNotEnoughValues]
           ELSE LET m == marshal(args[ps.index + 1])
                    r == addExpressionAttributeValue(ps.Values, ps.vidx, m.av)
                IN  IF m.err # NilErr
                    THEN [ps EXCEPT !.err = m.err]
                    ELSE [ps EXCEPT !.index = @ + 1,
                                    !.Values = r.Values,
                                    !.vidx = r.index,
                                    !.buf = @ \o r.key,
                                    !.bound = Append(@, m.av),
                                    !.boundAlias = Append(@, r.key)]
      [] v = "#" -> [ps EXCEPT !.inName = TRUE, !.bufName = <<>>]
      [] OTHER   -> [ps EXCEPT !.buf = Append(@, v)]

\* one iteration of `for _, v := range expr` (expression.go:226-280)
ParseRune(ps, v, args, attrs) ==
    IF ps.inName
    THEN IF isAlphaNumeric(v)
         THEN {[ps EXCEPT !.bufName = Append(@, v)]}
         ELSE IF v = "?"
         THEN IF ps.index >= Len(args)
              THEN {[ps EXCEPT !.err = ErrNotEnoughValues]}
              ELSE IF args[ps.index + 1].t # "string"
              THEN {[ps EXCEPT !.err = ErrExpectedString(ps.index)]}
              ELSE {[q EXCEPT !.index = @ + 1]
                    : q \in EmitName(ps, args[ps.index + 1].s, attrs)}
         ELSE {SwitchRune(q, v, args) : q \in EmitName(ps, ps.bufName, attrs)}
    ELSE {SwitchRune(ps, v, args)}

RECURSIVE ParseRunes(_, _, _, _)
ParseRunes(ps, expr, args, attrs) ==
    IF ps.err # NilErr \/ expr = <<>>
    THEN {ps}
    ELSE UNION {ParseRunes(q, Tail(expr), args, attrs)
                : q \in ParseRune(ps, Head(expr), args, attrs)}

\* after the loop: the pending name, then the count check (expression.go:282-291)
ParseEnd(ps, args, attrs) ==
    IF ps.err # NilErr
    THEN {ps}
    ELSE LET flushed == IF Len(ps.bufName) > 0
                        THEN EmitName(ps, ps.bufName, attrs)
                        ELSE {ps}
         IN  {IF Len(args) # q.index
              THEN [q EXCEPT !.err = ErrMismatched(Len(args), q.index)]
              ELSE q
              : q \in flushed}

\* every outcome of e.parse(expr, values...)
parse(names, values, idx, attrs, expr, args) ==
    UNION {ParseEnd(q, args, attrs)
           : q \in ParseRunes(ParseStart(names, values, idx), expr, args, attrs)}

(***************************************************************************)
(* expression.append and the clause methods                                *)
(***************************************************************************)
comma == <<",", " ">>
and   == <<" ", "a", "n", "d", " ">>

KwAdd    == <<"A", "d", "d">>
KwDelete == <<"D", "e", "l", "e", "t", "e">>
KwRemove == <<"R", "e", "m", "o", "v", "e">>
KwSet    == <<"S", "e", "t">>

\* the writes of append once parse succeeded (expression.go:154-162)
AppendText(text, keyword, separator, expr) ==
    LET lead == IF Len(text) = 0
                THEN IF Len(keyword) > 0 THEN keyword \o <<" ">> ELSE <<>>
                ELSE separator
    IN  text \o lead \o TrimSpace(expr)

\* a clause method: allocate the builder when nil, then append
\* (o is the outcome of parse)
ClauseBuilder(builder, keyword, separator, o) ==
    LET b == IF builder.alloc THEN builder ELSE NewBuilder
    IN  IF o.err # NilErr
        THEN b
        ELSE [b EXCEPT !.text = AppendText(@, keyword, separator, o.buf)]

(***************************************************************************)
(* The operation builder's clause methods:                                 *)
(*     if err := u.expr.Set(expr, values...); err != nil { u.err = err }   *)
(***************************************************************************)
RecordErr(old, new) == IF new # NilErr THEN new ELSE old

\* what every clause call does besides writing its own accumulator
ClauseEffect(c, o) ==
    /\ Names' = o.Names
    /\ Values' = o.Values
    /\ index' = o.vidx
    /\ err' = RecordErr(err, o.err)
    /\ calls' = calls + 1
    /\ failures' = IF o.err # NilErr THEN Append(failures, o.err) ELSE failures
    /\ history' = Append(history, [expr |-> c.expr, args |-> c.args, err |-> o.err])
    /\ refs' = refs \cup o.refs
    /\ bound' = bound \o o.bound
    /\ boundAlias' = boundAlias \o o.boundAlias
    /\ UNCHANGED <<attributes, op, output, sent, txVars, scanVars, capVars, queryVars>>

Outcomes(expr, args) == parse(Names, Values, index, attributes, expr, args)

\* the operation builders
Ops == {"update", "delete", "put", "query", "scan"}

\* the expression methods a builder's clause methods call: Update has
\* Add, Condition, Delete, Remove and Set; Delete and Put have Condition;
\* Query has KeyCondition (expr.Condition) and Filter (expr.Filter); Scan has
\* Filter, which calls expr.Condition
ClauseMethods(o) ==
    CASE o = "update" -> {"Add", "Condition", "Delete", "Remove", "Set"}
      [] o = "query"  -> {"Condition", "Filter"}
      [] OTHER        -> {"Condition"}

Add ==
    /\ calls < MaxCalls
    /\ ~output.called
    /\ "Add" \in ClauseMethods(op)
    /\ \E c \in ClauseInputs : \E o \in Outcomes(c.expr, c.args) :
          /\ Adds' = ClauseBuilder(Adds, KwAdd, comma, o)
          /\ UNCHANGED <<Conditions, Deletes, Filters, Removes, Sets>>
          /\ ClauseEffect(c, o)

Condition ==
    /\ calls < MaxCalls
    /\ ~output.called
    /\ "Condition" \in ClauseMethods(op)
    /\ \E c \in ClauseInputs : \E o \in Outcomes(c.expr, c.args) :
          /\ Conditions' = ClauseBuilder(Conditions, <<>>, and, o)
          /\ UNCHANGED <<Adds, Deletes, Filters, Removes, Sets>>
          /\ ClauseEffect(c, o)

Delete ==
    /\ calls < MaxCalls
    /\ ~output.called
    /\ "Delete" \in ClauseMethods(op)
    /\ \E c \in ClauseInputs : \E o \in Outcomes(c.expr, c.args) :
          /\ Deletes' = ClauseBuilder(Deletes, KwDelete, comma, o)
          /\ UNCHANGED <<Adds, Conditions, Filters, Removes, Sets>>
          /\ ClauseEffect(c, o)

Filter ==
    /\ calls < MaxCalls
    /\ ~output.called
    /\ "Filter" \in ClauseMethods(op)
    /\ Conditions.alloc      \* Table.Query starts with KeyCondition
    /\ \E c \in ClauseInputs : \E o \in Outcomes(c.expr, c.args) :
          /\ Filters' = ClauseBuilder(Filters, <<>>, and, o)
          /\ UNCHANGED <<Adds, Conditions, Deletes, Removes, Sets>>
          /\ ClauseEffect(c, o)

Remove ==
    /\ calls < MaxCalls
    /\ ~output.called
    /\ "Remove" \in ClauseMethods(op)
    /\ \E c \in ClauseInputs : \E o \in Outcomes(c.expr, c.args) :
          /\ Removes' = ClauseBuilder(Removes, KwRemove, comma, o)
          /\ UNCHANGED <<Adds, Conditions, Deletes, Filters, Sets>>
          /\ ClauseEffect(c, o)

Set ==
    /\ calls < MaxCalls
    /\ ~output.called
    /\ "Set" \in ClauseMethods(op)
    /\ \E c \in ClauseInputs : \E o \in Outcomes(c.expr, c.args) :
          /\ Sets' = ClauseBuilder(Sets, KwSet, comma, o)
          /\ UNCHANGED <<Adds, Conditions, Deletes, Filters, Removes>>
          /\ ClauseEffect(c, o)

(***************************************************************************)
(* Rendering.  A *string result is [nil, s].                               *)
(***************************************************************************)
NilString == [nil |-> TRUE, s |-> <<>>]
StringOf(s) == [nil |-> FALSE, s |-> s]

UpdatePadding == 3

\* expression.UpdateExpression
UpdateExpression(sets, removes, adds, deletes) ==
    LET Size(b) == IF b.alloc THEN Len(b.text) + UpdatePadding ELSE 0
        Part(b) == IF b.alloc THEN b.text \o <<" ">> ELSE <<>>
        size    == Size(adds) + Size(deletes) + Size(removes) + Size(sets)
        expr    == Part(sets) \o Part(removes) \o Part(adds) \o Part(deletes)
    IN  IF size = 0
        THEN NilString
        ELSE StringOf(SubSeq(expr, 1, Len(expr) - 1))

\* expression.ConditionExpression
ConditionExpression(conditions) ==
    IF ~conditions.alloc THEN NilString ELSE StringOf(conditions.text)

\* expression.FilterExpression
FilterExpression(filters) ==
    IF ~filters.alloc THEN NilString ELSE StringOf(filters.text)

NilInput ==
    [nil |-> TRUE, ConditionExpression |-> NilString, UpdateExpression |-> NilString,
     ExpressionAttributeNames |-> <<>>, ExpressionAttributeValues |-> <<>>]

NoOutput == [called |-> FALSE, err |-> NilErr, input |-> NilInput]

\* Update.UpdateItemInput: the build error first, else the rendered request
UpdateItemInputOf(uerr) ==
    IF uerr # NilErr
    THEN [called |-> TRUE, err |-> uerr, input |-> NilInput]
    ELSE [called |-> TRUE, err |-> NilErr,
          input |-> [nil |-> FALSE,
                     ConditionExpression |-> ConditionExpression(Conditions),
                     UpdateExpression |-> UpdateExpression(Sets, Removes, Adds, Deletes),
                     ExpressionAttributeNames |-> Names,
                     ExpressionAttributeValues |-> Values]]

\* the terminal call (UpdateItemInput, which Tx and RunWithContext start with)
UpdateItemInput ==
    /\ op = "update"
    /\ output' = UpdateItemInputOf(err)
    /\ ~output.called
    /\ UNCHANGED <<exprVars, builderVars, calls, failures, history, refs, bound, boundAlias, sent, txVars, scanVars, capVars, queryVars>>

(***************************************************************************)
(* The terminal calls that hand the request to the backend.  The keys and  *)
(* the item are ones makeKey and marshalMap encode.                        *)
(***************************************************************************)
\* Delete.DeleteItemInput: the request, whatever d.err holds
DeleteItemInputOf ==
    [called |-> TRUE, err |-> NilErr,
     input |-> [nil |-> FALSE,
                ConditionExpression |-> ConditionExpression(Conditions),
                ExpressionAttributeNames |-> Names,
                ExpressionAttributeValues |-> Values]]

\* Put.PutItemInput: the build error first, else the request
PutItemInputOf(perr) ==
    IF perr # NilErr
    THEN [called |-> TRUE, err |-> perr, input |-> NilInput]
    ELSE [called |-> TRUE, err |-> NilErr,
          input |-> [nil |-> FALSE,
                     ConditionExpression |-> ConditionExpression(Conditions),
                     ExpressionAttributeNames |-> Names,
                     ExpressionAttributeValues |-> Values]]

\* Query.QueryInput: the build error first, else the request
QueryInputOf(qerr) ==
    IF qerr # NilErr
    THEN [called |-> TRUE, err |-> qerr, input |-> NilInput]
    ELSE [called |-> TRUE, err |-> NilErr,
          input |-> [nil |-> FALSE,
                     KeyConditionExpression |-> ConditionExpression(Conditions),
                     FilterExpression |-> FilterExpression(Filters),
                     ExpressionAttributeNames |-> Names,
                     ExpressionAttributeValues |-> Values]]

\* Scan.EachWithContext's test of s.err, then Scan.makeScanInput: the filter
\* is what ConditionExpression renders
makeScanInputOf(serr) ==
    IF serr # NilErr
    THEN [called |-> TRUE, err |-> serr, input |-> NilInput]
    ELSE [called |-> TRUE, err |-> NilErr,
          input |-> [nil |-> FALSE,
                     FilterExpression |-> ConditionExpression(Conditions),
                     ExpressionAttributeNames |-> Names,
                     ExpressionAttributeValues |-> Values]]

\* an error the backend answers a request with
ErrBackend == [code |-> "ValidationException", msg |-> "backend", a |-> 0, b |-> 0]

\* what the backend may answer
ApiAnswers == {NilErr, ErrBackend}

\* after the request was rendered: `if err != nil { return err }`, else the
\* backend call, whose error is returned
RunEffect(r) ==
    /\ ~output.called
    /\ IF r.err # NilErr
       THEN /\ output' = r
            /\ sent' = sent
       ELSE \E answer \in ApiAnswers :
               /\ output' = [r EXCEPT !.err = answer]
               /\ sent' = Append(sent, r.input)
    /\ UNCHANGED <<exprVars, builderVars, calls, failures, history, refs, bound, boundAlias, txVars, scanVars, capVars, queryVars>>

DeleteRunWithContext ==
    /\ op = "delete"
    /\ RunEffect(DeleteItemInputOf)

PutRunWithContext ==
    /\ op = "put"
    /\ RunEffect(PutItemInputOf(err))

UpdateRunWithContext ==
    /\ op = "update"
    /\ RunEffect(UpdateItemInputOf(err))

QueryEachWithContext ==
    /\ op = "query"
    /\ RunEffect(QueryInputOf(err))

ScanEachWithContext ==
    /\ op = "scan"
    /\ RunEffect(makeScanInputOf(err))

(***************************************************************************)
(* The transactional coordinator (ddb.go).                                 *)
(***************************************************************************)
\* the largest attempt count the model configures
MaxTxAttempts == 4

defaultMaxAttempts == 4
defaultTimeout == 100


(***************************************************************************)
(* Errors and answers of the backend.  id tells apart the errors of        *)
(* different attempts.                                                     *)
(***************************************************************************)
TxNilErr == [type |-> "nil", reasons |-> <<>>, id |-> 0]
CtxErr   == [type |-> "context canceled", reasons |-> <<>>, id |-> 0]
TxBuildErr(i) == [type |-> "builder", reasons |-> <<>>, id |-> i]

\* a reason whose Code is nil
NilCode == "<nil>"

AnswerOK == [type |-> "ok", reasons |-> <<>>]
\* an error that is no TransactionCanceledException
AnswerOther == [type |-> "ValidationException", reasons |-> <<>>]
AnswerCanceled(reasons) == [type |-> "TransactionCanceledException", reasons |-> reasons]

ConflictAnswers ==
    { AnswerCanceled(<<"TransactionConflict">>),
      AnswerCanceled(<<"TransactionConflictException">>),
      AnswerCanceled(<<NilCode, "ConditionalCheckFailed", "TransactionConflict">>) }

FinalAnswers ==
    { AnswerOK, AnswerOther,
      AnswerCanceled(<<"ConditionalCheckFailed">>),
      AnswerCanceled(<<NilCode, "ValidationError">>) }

Answers == ConflictAnswers \cup FinalAnswers

\* the scripts of the fake backend: an answer per call; what follows an
\* answer no coordinator retries is never asked for, and is AnswerOK
ScriptLen == MaxTxAttempts + 1

Scripts ==
    { s \in [1..ScriptLen -> Answers] :
        \A i \in 1..ScriptLen : \A j \in 1..ScriptLen :
            (i < j /\ s[i] \in FinalAnswers) => s[j] = AnswerOK }

\* a nil *AttributeValue, and a table without the key
NilAV == [tag |-> "nil", val |-> <<>>]
NoKey == <<>>

\* tableSpec: the table's name and the attribute names of its keys
TableA == [TableName |-> <<"t", "a">>, HashKey |-> <<"p", "k">>, RangeKey |-> NoKey]
TableB == [TableName |-> <<"t", "b">>, HashKey |-> <<"i", "d">>,
           RangeKey |-> <<"d", "t">>]

\* the item builders: Tx() of a builder whose clause call failed, or whose
\* key cannot be marshalled, returns its error.  Builder a is on TableA with
\* hash key "a"; builder b is on TableB with hash key 7 and range key "r".
ItemOK(n) ==
    IF n = "a"
    THEN [name |-> n, txErr |-> FALSE, spec |-> TableA,
          hashKey |-> GoString(<<"a">>), rangeKey |-> GoNil]
    ELSE [name |-> n, txErr |-> FALSE, spec |-> TableB,
          hashKey |-> GoInt(7), rangeKey |-> GoString(<<"r">>)]
ItemBad(n) == [ItemOK(n) EXCEPT !.txErr = TRUE, !.hashKey = GoChan]

ItemLists ==
    { <<ItemOK("a")>>, <<ItemOK("a"), ItemOK("b")>>, <<ItemOK("b"), ItemOK("a")>>,
      <<ItemOK("a"), ItemBad("b")>> }

\* the Get builders of a plain get, and the answers of GetItem
GetBuilders == {<<ItemOK("a")>>, <<ItemOK("b")>>, <<ItemBad("b")>>}
GetScripts == {<<AnswerOK>>, <<AnswerOther>>}

NilRequest == [token |-> 0, TransactItems |-> <<>>]
NoReturn == [done |-> FALSE, err |-> TxNilErr, ok |-> FALSE]

(***************************************************************************)
(* Keys, and the not-found error of the gets.                              *)
(***************************************************************************)
\* makeKey: the marshalled keys under the attribute names of the table's keys
makeKey(spec, hashKey, rangeKey) ==
    LET hk == marshal(hashKey)
        rk == marshal(rangeKey)
        hpart == IF spec.HashKey # NoKey THEN spec.HashKey :> hk.av ELSE <<>>
        rpart == IF spec.RangeKey # NoKey THEN spec.RangeKey :> rk.av ELSE <<>>
    IN  IF hk.err # NilErr \/ rk.err # NilErr
        THEN [err |-> TRUE, keys |-> <<>>]
        ELSE [err |-> FALSE, keys |-> rpart @@ hpart]

\* getTx.Tx (and the item a write builder's Tx() renders): the key and the
\* table of the builder
Tx(g) ==
    LET k == makeKey(g.spec, g.hashKey, g.rangeKey)
    IN  [err  |-> k.err \/ g.txErr,
         item |-> [name |-> g.name, Key |-> k.keys, TableName |-> g.spec.TableName]]

\* getMetadata: the hash key, the range key and the table name of a request's
\* key
getMetadata(key, spec) ==
    [hashKey   |-> IF spec.HashKey # NoKey /\ spec.HashKey \in DOMAIN key
                   THEN key[spec.HashKey] ELSE NilAV,
     rangeKey  |-> IF spec.RangeKey # NoKey /\ spec.RangeKey \in DOMAIN key
                   THEN key[spec.RangeKey] ELSE NilAV,
     tableName |-> spec.TableName]

ErrItemNotFound == "ItemNotFound"

\* keyToString: S and N as their text, anything else "null"
keyToString(key) ==
    IF key.tag \in {"S", "N"} THEN key.val ELSE <<"n", "u", "l", "l">>

\* notFoundError: the keys and the table, and the message made of them
notFoundError(hashKey, rangeKey, tableName) ==
    [type |-> ErrItemNotFound, reasons |-> <<>>, id |-> 0,
     hashKey |-> hashKey, rangeKey |-> rangeKey, tableName |-> tableName,
     message |->
        IF hashKey = NilAV /\ rangeKey = NilAV
        THEN <<"item not found">>
        ELSE IF rangeKey = NilAV
        THEN <<"failed to find item", keyToString(hashKey), tableName>>
        ELSE <<"failed to find item", keyToString(hashKey), keyToString(rangeKey),
               tableName>>]

\* errorf(ErrItemNotFound, "item not found")
ErrNotFoundNoKeys ==
    [type |-> ErrItemNotFound, reasons |-> <<>>, id |-> 0,
     hashKey |-> NilAV, rangeKey |-> NilAV, tableName |-> <<>>,
     message |-> <<"item not found">>]

\* an ItemResponse of the backend: its place in Responses, and whether its
\* Item is empty
ItemResponse(i, empty) == [pos |-> i, empty |-> empty]

\* the Responses of a successful TransactGetItems of n items: one per item
ResponseLists(n) ==
    {[i \in 1..n |-> ItemResponse(i, b[i])] : b \in [1..n -> BOOLEAN]}

\* mutant: the keys are never recomputed
DecodeWithoutKeys(g, v) ==
    IF v.empty THEN ErrNotFoundNoKeys ELSE TxNilErr

\* getTx.Decode
Decode(g, v) ==
    IF v.empty
    THEN IF ~Tx(g).err
         THEN LET m == getMetadata(Tx(g).item.Key, g.spec)
              IN  notFoundError(m.hashKey, m.rangeKey, m.tableName)
         ELSE ErrNotFoundNoKeys
    ELSE TxNilErr

\* mutant: the responses are handed out one builder late
GetAtShifted(i, n) == (i % n) + 1

\* gets[i]: the builder that decodes the i-th response
GetAt(i, n) == i

\* the loop over output.Responses: every response is decoded by its builder,
\* up to the first that fails
DecodeResponses(gets, resp) ==
    LET n    == Len(gets)
        bad  == {i \in 1..Len(resp) : Decode(gets[GetAt(i, n)], resp[i]) # TxNilErr}
        last == IF bad = {} THEN Len(resp) ELSE SetMin(bad)
    IN  [decoded |-> [i \in 1..last |-> [get |-> GetAt(i, n), response |-> resp[i]]],
         err     |-> IF bad = {} THEN TxNilErr
                     ELSE Decode(gets[GetAt(last, n)], resp[last])]

(***************************************************************************)
(* DDB.WithTransactAttempts: the attempt counts it accepts                 *)
(***************************************************************************)
WithTransactAttemptsPanics(n) == n < 0 \/ n >= 10

\* getTimeout: defaultTimeout doubled attempt times (milliseconds)
RECURSIVE getTimeout(_)
getTimeout(a) == IF a <= 0 THEN defaultTimeout ELSE 2 * getTimeout(a - 1)

(***************************************************************************)
(* The retry classification of the two coordinators.                       *)
(***************************************************************************)
\* errors.As(err, &tce)
IsCanceled(answer) == answer.type = "TransactionCanceledException"

\* mutant: every cancellation is retried
WriteRetriesAnyCancel(answer) == IsCanceled(answer)

\* TransactWriteItemsWithContext (ddb.go:270-287)
WriteRetries(answer) ==
    /\ IsCanceled(answer)
    /\ \E i \in 1..Len(answer.reasons) :
          /\ answer.reasons[i] # NilCode
          /\ \/ answer.reasons[i] = "TransactionConflictException"
             \/ answer.reasons[i] = "TransactionConflict"

\* TransactGetItemsWithContext (ddb.go:206-220)
GetRetries(answer) ==
    /\ IsCanceled(answer)
    /\ \E i \in 1..Len(answer.reasons) :
          /\ answer.reasons[i] # NilCode
          /\ answer.reasons[i] = "TransactionConflict"

Retries(kind, answer) ==
    IF kind = "write" THEN WriteRetries(answer) ELSE GetRetries(answer)

\* mutant: the last attempt is never made
LoopGuardShort(a, n) == a < n

\* the loop condition: attempt <= d.txAttempts
LoopGuard(a, n) == a <= n

(***************************************************************************)
(* The coordinator's steps.                                                *)
(***************************************************************************)
\* the answer of the fake backend to its n-th call
BackendAnswer(script, n) == IF n <= Len(script) THEN script[n] ELSE AnswerOK

\* the error value an answer is returned as
ErrOf(answer, n) == [type |-> answer.type, reasons |-> answer.reasons, id |-> n]

\* d.tokenFunc(): a token no earlier invocation returned
tokenFunc(n) == n + 1

\* mutant: the error of Tx() is dropped
FailingItemsIgnored(its) == {}

\* the item builders whose Tx() fails
FailingItems(its) == {i \in 1..Len(its) : its[i].txErr}

\* mutant: a retry asks for a token of its own
RequestSentFreshToken(in, a) == [in EXCEPT !.token = in.token + a - 1]

\* the request the attempt hands to the backend: &input, built once
RequestSent(in, a) == in

\* mutant: only the first conflict is kept
SavedErrFirst(old, new) == IF old.type = "nil" THEN new ELSE old

\* e = err, when the timer fires
SavedErr(old, new) == new

\* mutant: the timer may win against a cancelled context
TimerFiresAnyway(done) == TRUE

\* the select of the backoff wait: a pending timer fires only while the
\* context is not cancelled; a cancelled context is taken at once
TimerFires(done) == ~done

\* entering the loop, or coming back to its head: call again or return e
LoopHead(a, saved) ==
    IF LoopGuard(a, txAttempts)
    THEN /\ pc' = "call"
         /\ ret' = ret
    ELSE /\ pc' = "done"
         /\ ret' = [done |-> TRUE, err |-> saved, ok |-> FALSE]

\* the token and the request, up to the loop (ddb.go:189-198, 250-262)
TxBegin ==
    /\ pc = "start"
    /\ txKind \in {"write", "get"}
    /\ tokenCalls' = IF txKind = "write" THEN tokenCalls + 1 ELSE tokenCalls
    /\ IF FailingItems(items) # {}
       THEN /\ pc' = "done"
            /\ ret' = [done |-> TRUE, err |-> TxBuildErr(SetMin(FailingItems(items))),
                       ok |-> FALSE]
            /\ UNCHANGED <<input, attempt>>
       ELSE /\ input' = [token |-> IF txKind = "write" THEN tokenFunc(tokenCalls) ELSE 0,
                         TransactItems |-> [i \in 1..Len(items) |-> Tx(items[i]).item]]
            /\ attempt' = 1
            /\ LoopHead(1, e)
    /\ UNCHANGED <<txKind, txAttempts, items, backend, ctxDone, lastErr, e,
                   requests, waits, cancelledAt>>
    /\ UNCHANGED <<queryVars, capVars, scanVars, exprVars, builderVars, obsVars, decoded>>

\* one backend call and the classification of its answer
TxCall ==
    /\ pc = "call"
    /\ LET n      == Len(requests) + 1
           answer == BackendAnswer(backend, n)
       IN  /\ requests' = Append(requests, RequestSent(input, attempt))
           /\ IF answer = AnswerOK
              THEN /\ pc' = "done"
                   /\ IF txKind = "get"
                      THEN \E resp \in ResponseLists(Len(items)) :
                              LET d == DecodeResponses(items, resp)
                              IN  /\ decoded' = d.decoded
                                  /\ ret' = [done |-> TRUE, err |-> d.err,
                                             ok |-> d.err = TxNilErr]
                      ELSE /\ decoded' = decoded
                           /\ ret' = [done |-> TRUE, err |-> TxNilErr, ok |-> TRUE]
                   /\ UNCHANGED lastErr
              ELSE IF Retries(txKind, answer)
              THEN /\ pc' = "wait"
                   /\ lastErr' = ErrOf(answer, n)
                   /\ UNCHANGED <<ret, decoded>>
              ELSE /\ pc' = "done"
                   /\ ret' = [done |-> TRUE, err |-> ErrOf(answer, n), ok |-> FALSE]
                   /\ UNCHANGED <<lastErr, decoded>>
    /\ UNCHANGED <<txKind, txAttempts, items, backend, ctxDone, attempt, input, e,
                   tokenCalls, waits, cancelledAt>>
    /\ UNCHANGED <<queryVars, capVars, scanVars, exprVars, builderVars, obsVars>>

\* case <-time.After(timeout): e = err; continue loop
TxWaitTimeout ==
    /\ pc = "wait"
    /\ TimerFires(ctxDone)
    /\ waits' = Append(waits, getTimeout(attempt))
    /\ e' = SavedErr(e, lastErr)
    /\ attempt' = attempt + 1
    /\ LoopHead(attempt + 1, SavedErr(e, lastErr))
    /\ UNCHANGED <<txKind, txAttempts, items, backend, ctxDone, input, lastErr,
                   tokenCalls, requests, cancelledAt>>
    /\ UNCHANGED <<queryVars, capVars, scanVars, exprVars, builderVars, obsVars, decoded>>

\* case <-ctx.Done(): return ctx.Err()
TxWaitCancelled ==
    /\ pc = "wait"
    /\ ctxDone
    /\ pc' = "done"
    /\ ret' = [done |-> TRUE, err |-> CtxErr, ok |-> FALSE]
    /\ UNCHANGED <<txKind, txAttempts, items, backend, ctxDone, attempt, input,
                   lastErr, e, tokenCalls, requests, waits, cancelledAt>>
    /\ UNCHANGED <<queryVars, capVars, scanVars, exprVars, builderVars, obsVars, decoded>>

\* Get.ScanWithContext: the request, the backend call, and the item decoded or
\* reported missing
GetScanWithContext ==
    /\ pc = "start"
    /\ txKind = "plain"
    /\ pc' = "done"
    /\ LET g      == items[1]
           in     == Tx(g)
           answer == BackendAnswer(backend, 1)
       IN  IF in.err
           THEN /\ ret' = [done |-> TRUE, err |-> TxBuildErr(1), ok |-> FALSE]
                /\ UNCHANGED <<requests, decoded>>
           ELSE /\ requests' = Append(requests, in.item)
                /\ IF answer # AnswerOK
                   THEN /\ ret' = [done |-> TRUE, err |-> ErrOf(answer, 1), ok |-> FALSE]
                        /\ UNCHANGED decoded
                   ELSE \E resp \in ResponseLists(1) :
                           LET m == getMetadata(in.item.Key, g.spec)
                           IN  /\ decoded' = <<[get |-> 1, response |-> resp[1]]>>
                               /\ ret' = IF resp[1].empty
                                         THEN [done |-> TRUE, ok |-> FALSE,
                                               err |-> notFoundError(m.hashKey, m.rangeKey,
                                                                     m.tableName)]
                                         ELSE [done |-> TRUE, err |-> TxNilErr, ok |-> TRUE]
    /\ UNCHANGED <<txKind, txAttempts, items, backend, ctxDone, attempt, input,
                   lastErr, e, tokenCalls, waits, cancelledAt>>
    /\ UNCHANGED <<queryVars, capVars, scanVars, exprVars, builderVars, obsVars>>

\* the caller cancels the context while the call is running
CtxCancel ==
    /\ pc # "done"
    /\ ~ctxDone
    /\ ctxDone' = TRUE
    /\ cancelledAt' = [pc |-> pc, calls |-> Len(requests)]
    /\ UNCHANGED <<txKind, txAttempts, items, backend, pc, attempt, input,
                   lastErr, e, ret, tokenCalls, requests, waits>>
    /\ UNCHANGED <<queryVars, capVars, scanVars, exprVars, builderVars, obsVars, decoded>>

(***************************************************************************)
(* The segmented scan: Scan.EachWithContext starts one goroutine per       *)
(* segment; every goroutine runs Scan.scanSegment with the caller's        *)
(* callback and the context that a stopping worker cancels.  A goroutine   *)
(* takes one step per backend call, one when it enters the callback and    *)
(* one when the callback returns, so that the interleavings of the         *)
(* callback's body are the states of the model.  The scan is made without  *)
(* a per-request capture (s.request = nil) and without a debug writer.     *)
(***************************************************************************)
\* segments a scan is split into
MaxSegments == 2

\* the pages of one segment: the number of items of every page; the last
\* page is the one whose LastEvaluatedKey is nil
ScanPageLists == {<<1>>, <<2>>, <<0, 1>>}

\* the error of a backend call made with a cancelled context
ErrCanceled == [code |-> "RequestCanceled", msg |-> "context canceled", a |-> 0, b |-> 0]

\* an error returned by the caller's callback
ErrCallback == [code |-> "", msg |-> "callback", a |-> 0, b |-> 0]

\* what the callback may return: (ok, err)
CallbackResults ==
    {[ok |-> TRUE, err |-> NilErr], [ok |-> FALSE, err |-> NilErr],
     [ok |-> FALSE, err |-> ErrCallback], [ok |-> TRUE, err |-> ErrCallback]}

\* a goroutine that has not called the backend yet
NewWorker == [pc |-> "call", page |-> 0, left |-> 0, stop |-> FALSE, err |-> NilErr]

NoScanReturn == [done |-> FALSE, err |-> NilErr]

\* errs := make(chan error, s.totalSegments)
ErrsUnbuffered(n) == 0
ErrsCap(n) == n

\* the goroutine after scanSegment returned (stop, x):
\*     if err != nil { errs <- err }; if stop { cancel() }; wg.Done()
\* a send on a full channel blocks: nothing receives before wg.Wait returns
Returned(w, stop, x) ==
    IF x # NilErr /\ Len(errs) >= ErrsCap(totalSegments)
    THEN /\ workers' = [workers EXCEPT ![w].pc = "send", ![w].stop = stop, ![w].err = x]
         /\ UNCHANGED <<errs, ctxCancelled>>
    ELSE /\ workers' = [workers EXCEPT ![w].pc = "done", ![w].stop = stop, ![w].err = x]
         /\ errs' = IF x # NilErr THEN Append(errs, x) ELSE errs
         /\ ctxCancelled' = (ctxCancelled \/ stop)

\* the end of the loop over output.Items:
\*     startKey = output.LastEvaluatedKey; if startKey == nil { break }
\* and scanSegment's return false, nil
EndOfPage(w, page) ==
    IF page = Len(segments[w])
    THEN Returned(w, FALSE, NilErr)
    ELSE /\ workers' = [workers EXCEPT ![w].pc = "call", ![w].page = page, ![w].left = 0]
         /\ UNCHANGED <<errs, ctxCancelled>>

\* EachWithContext up to wg.Wait()
EachBegin ==
    /\ scanPc = "start"
    /\ IF sErr # NilErr
       THEN /\ scanRet' = [done |-> TRUE, err |-> sErr]
            /\ scanPc' = "done"
            /\ UNCHANGED <<totalSegments, workers>>
       ELSE /\ totalSegments' = IF totalSegments = 0 THEN 1 ELSE totalSegments
            /\ workers' = [w \in 0..(totalSegments' - 1) |-> NewWorker]
            /\ scanPc' = "wait"
            /\ UNCHANGED scanRet
    /\ UNCHANGED <<sErr, segments, ctxCancelled, errs, tableReadUnits>>
    /\ UNCHANGED <<exprVars, builderVars, obsVars, txVars, capVars, queryVars>>

\* scanSegment: s.api.ScanWithContext(ctx, input) and what follows it up to
\* the first item of the page
scanSegmentCall ==
    /\ scanPc = "wait"
    /\ \E w \in DOMAIN workers :
          /\ workers[w].pc = "call"
          /\ IF ctxCancelled
             THEN /\ Returned(w, FALSE, ErrCanceled)
                  /\ UNCHANGED tableReadUnits
             ELSE \E answer \in ApiAnswers :
                     IF answer # NilErr
                     THEN /\ Returned(w, FALSE, answer)
                          /\ UNCHANGED tableReadUnits
                     ELSE LET page == workers[w].page + 1
                              n == segments[w][page]
                          IN  /\ tableReadUnits' = tableReadUnits + 1
                              /\ IF n = 0
                                 THEN EndOfPage(w, page)
                                 ELSE /\ workers' = [workers EXCEPT ![w].pc = "items",
                                                                    ![w].page = page,
                                                                    ![w].left = n]
                                      /\ UNCHANGED <<errs, ctxCancelled>>
    /\ UNCHANGED <<sErr, totalSegments, segments, scanPc, scanRet>>
    /\ UNCHANGED <<exprVars, builderVars, obsVars, txVars, capVars, queryVars>>

\* scanSegment: ok, err := fn(item) is entered
CallbackEnter ==
    /\ scanPc = "wait"
    /\ \E w \in DOMAIN workers :
          /\ workers[w].pc = "items"
          /\ workers' = [workers EXCEPT ![w].pc = "callback"]
    /\ UNCHANGED <<sErr, totalSegments, segments, scanPc, ctxCancelled, errs,
                   scanRet, tableReadUnits>>
    /\ UNCHANGED <<exprVars, builderVars, obsVars, txVars, capVars, queryVars>>

\* scanSegment: fn(item) returns
CallbackReturn ==
    /\ scanPc = "wait"
    /\ \E w \in DOMAIN workers :
          /\ workers[w].pc = "callback"
          /\ \E r \in CallbackResults :
                IF r.err # NilErr
                THEN Returned(w, FALSE, r.err)
                ELSE IF ~r.ok
                THEN Returned(w, TRUE, NilErr)
                ELSE IF workers[w].left = 1
                THEN EndOfPage(w, workers[w].page)
                ELSE /\ workers' = [workers EXCEPT ![w].pc = "items",
                                                   ![w].left = workers[w].left - 1]
                     /\ UNCHANGED <<errs, ctxCancelled>>
    /\ UNCHANGED <<sErr, totalSegments, segments, scanPc, scanRet, tableReadUnits>>
    /\ UNCHANGED <<exprVars, builderVars, obsVars, txVars, capVars, queryVars>>

\* EachWithContext from wg.Wait() on: close(errs), the first error of the
\* channel or nil, and the deferred cancel()
EachReturn ==
    /\ scanPc = "wait"
    /\ \A w \in DOMAIN workers : workers[w].pc = "done"
    /\ scanRet' = [done |-> TRUE, err |-> IF errs = <<>> THEN NilErr ELSE Head(errs)]
    /\ ctxCancelled' = TRUE
    /\ scanPc' = "done"
    /\ UNCHANGED <<sErr, totalSegments, segments, workers, errs, tableReadUnits>>
    /\ UNCHANGED <<exprVars, builderVars, obsVars, txVars, capVars, queryVars>>

(***************************************************************************)
(* ConsumedCapacity.  add is called by every operation that got a response *)
(* and by every goroutine of a segmented scan, so several calls run at     *)
(* once; a call takes one step per atomic operation and per use of c.mux,  *)
(* and c.capacityUnits += x is a load and a store.                         *)
(***************************************************************************)
\* goroutines that call add at the same time
MaxAdders == 2

\* safeClone calls made while they run
MaxClones == 1

\* a nil *float64
NilNum == -1

\* add(nil)
NilCapacity == [nil |-> TRUE, read |-> NilNum, write |-> NilNum, units |-> NilNum]

\* the ConsumedCapacity of a response, in half units: a strongly consistent
\* read, an eventually consistent read, a write, and a response that has no
\* CapacityUnits
Capacities ==
    {NilCapacity,
     [nil |-> FALSE, read |-> 2, write |-> NilNum, units |-> 2],
     [nil |-> FALSE, read |-> 1, write |-> 0, units |-> 1],
     [nil |-> FALSE, read |-> NilNum, write |-> 2, units |-> 2],
     [nil |-> FALSE, read |-> 2, write |-> 4, units |-> NilNum]}

\* int64(f) of a float64 f >= 0 given in half units: the fraction is dropped
ToInt64(h) == h \div 2

NoHolder == 0
Cloner == MaxAdders + 1

\* c.mux.Lock() returns once no goroutine holds the mutex
MuxIgnored(m) == TRUE
MuxFree(m) == m = NoHolder

\* add: if in == nil { return }; the atomic.AddInt64 on c.ReadUnits
addRead ==
    /\ \E a \in DOMAIN capPc :
          /\ capPc[a] = "start"
          /\ IF capIn[a].nil
             THEN /\ capPc' = [capPc EXCEPT ![a] = "done"]
                  /\ UNCHANGED ReadUnits
             ELSE /\ capPc' = [capPc EXCEPT ![a] = "write"]
                  /\ ReadUnits' = IF capIn[a].read # NilNum /\ capIn[a].read > 0
                                  THEN ReadUnits + ToInt64(capIn[a].read)
                                  ELSE ReadUnits
    /\ UNCHANGED <<capIn, mux, loaded, WriteUnits, capacityUnits, clonePc, clones, snapshot>>
    /\ UNCHANGED <<exprVars, builderVars, obsVars, txVars, scanVars, queryVars>>

\* add: the atomic.AddInt64 on c.WriteUnits and the test of in.CapacityUnits
addWrite ==
    /\ \E a \in DOMAIN capPc :
          /\ capPc[a] = "write"
          /\ WriteUnits' = IF capIn[a].write # NilNum /\ capIn[a].write > 0
                           THEN WriteUnits + ToInt64(capIn[a].write)
                           ELSE WriteUnits
          /\ capPc' = [capPc EXCEPT ![a] = IF capIn[a].units # NilNum THEN "lock" ELSE "done"]
    /\ UNCHANGED <<capIn, mux, loaded, ReadUnits, capacityUnits, clonePc, clones, snapshot>>
    /\ UNCHANGED <<exprVars, builderVars, obsVars, txVars, scanVars, queryVars>>

\* add: c.mux.Lock()
addLock ==
    /\ \E a \in DOMAIN capPc :
          /\ capPc[a] = "lock"
          /\ MuxFree(mux)
          /\ mux' = a
          /\ capPc' = [capPc EXCEPT ![a] = "load"]
    /\ UNCHANGED <<capIn, loaded, ReadUnits, WriteUnits, capacityUnits, clonePc, clones, snapshot>>
    /\ UNCHANGED <<exprVars, builderVars, obsVars, txVars, scanVars, queryVars>>

\* add: the read of c.capacityUnits += *in.CapacityUnits
addLoad ==
    /\ \E a \in DOMAIN capPc :
          /\ capPc[a] = "load"
          /\ loaded' = [loaded EXCEPT ![a] = capacityUnits]
          /\ capPc' = [capPc EXCEPT ![a] = "store"]
    /\ UNCHANGED <<capIn, mux, ReadUnits, WriteUnits, capacityUnits, clonePc, clones, snapshot>>
    /\ UNCHANGED <<exprVars, builderVars, obsVars, txVars, scanVars, queryVars>>

\* add: the write of c.capacityUnits += *in.CapacityUnits
addStore ==
    /\ \E a \in DOMAIN capPc :
          /\ capPc[a] = "store"
          /\ capacityUnits' = loaded[a] + capIn[a].units
          /\ capPc' = [capPc EXCEPT ![a] = "unlock"]
    /\ UNCHANGED <<capIn, mux, loaded, ReadUnits, WriteUnits, clonePc, clones, snapshot>>
    /\ UNCHANGED <<exprVars, builderVars, obsVars, txVars, scanVars, queryVars>>

\* add: c.mux.Unlock()
addUnlock ==
    /\ \E a \in DOMAIN capPc :
          /\ capPc[a] = "unlock"
          /\ mux' = NoHolder
          /\ capPc' = [capPc EXCEPT ![a] = "done"]
    /\ UNCHANGED <<capIn, loaded, ReadUnits, WriteUnits, capacityUnits, clonePc, clones, snapshot>>
    /\ UNCHANGED <<exprVars, builderVars, obsVars, txVars, scanVars, queryVars>>

\* safeClone: c.mux.Lock()
safeCloneLock ==
    /\ clonePc = "idle"
    /\ clones < MaxClones
    /\ MuxFree(mux)
    /\ mux' = Cloner
    /\ clonePc' = "copy"
    /\ UNCHANGED <<capIn, capPc, loaded, ReadUnits, WriteUnits, capacityUnits, clones, snapshot>>
    /\ UNCHANGED <<exprVars, builderVars, obsVars, txVars, scanVars, queryVars>>

\* safeClone: the copy it returns and the deferred c.mux.Unlock()
safeCloneReturn ==
    /\ clonePc = "copy"
    /\ snapshot' = [ReadUnits |-> ReadUnits, WriteUnits |-> WriteUnits,
                    capacityUnits |-> capacityUnits]
    /\ mux' = NoHolder
    /\ clonePc' = "idle"
    /\ clones' = clones + 1
    /\ UNCHANGED <<capIn, capPc, loaded, ReadUnits, WriteUnits, capacityUnits>>
    /\ UNCHANGED <<exprVars, builderVars, obsVars, txVars, scanVars, queryVars>>

(***************************************************************************)
(* Query.EachWithContext: the paging loop, the callback, the accounting of *)
(* consumed capacity and the deferred report of the last evaluated key.    *)
(* The caller supplied LastEvaluatedKey(&key); the first query may have a  *)
(* capture, the query that resumes it (a new builder with StartKey(key))   *)
(* has none.  Every response reports one capacity unit.                    *)
(***************************************************************************)
\* items the key condition matches
MaxResult == 3

\* q.limit: 0 is no limit
QueryLimits == {0, 1, 2}

\* items the backend evaluates for one page when the request has no Limit
QueryPageSizes == {1, 2}

NilKey == 0

QMin(a, b) == IF a <= b THEN a ELSE b

\* the number of items of the page that follows key k
PageCount(k, lim) ==
    QMin(qTotal - k, IF lim > 0 THEN QMin(lim, qPageSize) ELSE qPageSize)

\* output.Items of the page that follows key k
PageItems(k, lim) == [i \in 1..PageCount(k, lim) |-> k + i]

\* output.LastEvaluatedKey: the key of the page's last item while items
\* remain; a page that reaches the end of the result has a nil key, or
\* still its last item's key (the backend then answers the next request
\* with an empty page)
PageKeys(k, lim) ==
    LET last == k + PageCount(k, lim)
    IN  IF last < qTotal THEN {last}
        ELSE IF PageCount(k, lim) > 0 THEN {NilKey, last}
        ELSE {NilKey}

\* return x, and the deferred *q.lastEvaluatedKey = startKey
QueryReturn(x, key) ==
    /\ qRet' = Append(qRet, x)
    /\ qReported' = key
    /\ qPc' = "done"

\* after the loop over output.Items: q.table.add, q.request.add if a capture
\* was supplied, and the two breaks of the paging loop
AfterItems(key) ==
    /\ qTableUnits' = qTableUnits + 1
    /\ qRequestUnits' = IF qCapture /\ qRun = 1 THEN qRequestUnits + 1 ELSE qRequestUnits
    /\ IF key = NilKey \/ qLimit > 0
       THEN QueryReturn(NilErr, key)
       ELSE /\ qPc' = "call"
            /\ UNCHANGED <<qRet, qReported>>

\* EachWithContext up to the paging loop
QueryBegin ==
    /\ qPc = "start"
    /\ IF qErr # NilErr
       THEN /\ qRet' = Append(qRet, qErr)
            /\ qPc' = "done"
            /\ UNCHANGED qStartKey
       ELSE /\ qStartKey' = IF qRun = 1 THEN NilKey ELSE qReported
            /\ qPc' = "call"
            /\ UNCHANGED qRet
    /\ UNCHANGED <<qErr, qLimit, qCapture, qTotal, qPageSize, qRun, qLeft, qReported,
                   delivered, qResponses, qTableUnits, qRequestUnits>>
    /\ UNCHANGED <<exprVars, builderVars, obsVars, txVars, scanVars, capVars>>

\* q.api.QueryWithContext(ctx, input) and startKey = output.LastEvaluatedKey
QueryCall ==
    /\ qPc = "call"
    /\ \E answer \in ApiAnswers :
          IF answer # NilErr
          THEN /\ QueryReturn(answer, qStartKey)
               /\ UNCHANGED <<qStartKey, qLeft, qResponses, qTableUnits, qRequestUnits>>
          ELSE \E key \in PageKeys(qStartKey, qLimit) :
                  /\ qStartKey' = key
                  /\ qResponses' = [qResponses EXCEPT ![qRun] = qResponses[qRun] + 1]
                  /\ qLeft' = PageItems(qStartKey, qLimit)
                  /\ IF qLeft' = <<>>
                     THEN AfterItems(key)
                     ELSE /\ qPc' = "items"
                          /\ UNCHANGED <<qRet, qReported, qTableUnits, qRequestUnits>>
    /\ UNCHANGED <<qErr, qLimit, qCapture, qTotal, qPageSize, qRun, delivered>>
    /\ UNCHANGED <<exprVars, builderVars, obsVars, txVars, scanVars, capVars>>

\* ok, err := fn(item) for the next item of the page, and what follows it
QueryItem ==
    /\ qPc = "items"
    /\ delivered' = Append(delivered, Head(qLeft))
    /\ qLeft' = Tail(qLeft)
    /\ \E r \in CallbackResults :
          IF r.err # NilErr
          THEN /\ QueryReturn(r.err, qStartKey)
               /\ UNCHANGED <<qTableUnits, qRequestUnits>>
          ELSE IF ~r.ok
          THEN /\ QueryReturn(NilErr, qStartKey)
               /\ UNCHANGED <<qTableUnits, qRequestUnits>>
          ELSE IF qLeft' = <<>>
          THEN AfterItems(qStartKey)
          ELSE UNCHANGED <<qPc, qRet, qReported, qTableUnits, qRequestUnits>>
    /\ UNCHANGED <<qErr, qLimit, qCapture, qTotal, qPageSize, qRun, qStartKey, qResponses>>
    /\ UNCHANGED <<exprVars, builderVars, obsVars, txVars, scanVars, capVars>>

\* the caller starts a second query from the key the first one reported:
\* table.Query(...).StartKey(key), with a limit of its own
QueryResume ==
    /\ qPc = "done"
    /\ qRun = 1
    /\ qErr = NilErr
    /\ qReported # NilKey
    /\ qRun' = 2
    /\ qPc' = "start"
    /\ qLimit' \in QueryLimits
    /\ UNCHANGED <<qErr, qCapture, qTotal, qPageSize, qStartKey, qLeft, qRet, qReported,
                   delivered, qResponses, qTableUnits, qRequestUnits>>
    /\ UNCHANGED <<exprVars, builderVars, obsVars, txVars, scanVars, capVars>>

(***************************************************************************)
(* Specifications.  Spec: one operation builder and its expression.        *)
(* SpecTx: one call of a coordinator.  SpecScan: one segmented scan.       *)
(* SpecCap: concurrent add calls.  SpecQuery: a paged query and its resume. *)
(***************************************************************************)
InitExpr ==
    /\ Names = <<>>
    /\ Values = <<>>
    /\ index = 0
    /\ Adds = NilBuilder
    /\ Conditions = NilBuilder
    /\ Deletes = NilBuilder
    /\ Filters = NilBuilder
    /\ Removes = NilBuilder
    /\ Sets = NilBuilder
    /\ err = NilErr
    /\ calls = 0
    /\ failures = <<>>
    /\ history = <<>>
    /\ refs = {}
    /\ bound = <<>>
    /\ boundAlias = <<>>
    /\ output = NoOutput
    /\ sent = <<>>

InitTx ==
    /\ pc = "start"
    /\ ctxDone = FALSE
    /\ attempt = 0
    /\ input = NilRequest
    /\ lastErr = TxNilErr
    /\ e = TxNilErr
    /\ ret = NoReturn
    /\ tokenCalls = 0
    /\ requests = <<>>
    /\ waits = <<>>
    /\ decoded = <<>>
    /\ cancelledAt = [pc |-> "never", calls |-> 0]

\* a ConsumedCapacity nothing is added to
ZeroCapacity == [ReadUnits |-> 0, WriteUnits |-> 0, capacityUnits |-> 0]

NoAdds ==
    /\ capIn = <<>>
    /\ capPc = <<>>
    /\ mux = NoHolder
    /\ loaded = <<>>
    /\ ReadUnits = 0
    /\ WriteUnits = 0
    /\ capacityUnits = 0
    /\ clonePc = "idle"
    /\ clones = 0
    /\ snapshot = ZeroCapacity

\* no query is made
NoQuery ==
    /\ qErr = NilErr
    /\ qLimit = 0
    /\ qCapture = FALSE
    /\ qTotal = 0
    /\ qPageSize = 1
    /\ qRun = 1
    /\ qPc = "done"
    /\ qStartKey = NilKey
    /\ qLeft = <<>>
    /\ qRet = <<>>
    /\ qReported = NilKey
    /\ delivered = <<>>
    /\ qResponses = <<0, 0>>
    /\ qTableUnits = 0
    /\ qRequestUnits = 0

\* no scan is made
NoScan ==
    /\ sErr = NilErr
    /\ totalSegments = 0
    /\ segments = <<>>
    /\ scanPc = "done"
    /\ workers = <<>>
    /\ ctxCancelled = FALSE
    /\ errs = <<>>
    /\ scanRet = NoScanReturn
    /\ tableReadUnits = 0

Init ==
    /\ NoQuery
    /\ NoScan
    /\ NoAdds
    /\ attributes \in Schemas
    /\ op \in Ops
    /\ InitExpr
    /\ txKind = "write"
    /\ txAttempts = defaultMaxAttempts
    /\ items = <<>>
    /\ backend = <<>>
    /\ InitTx

Next ==
    \/ Add
    \/ Condition
    \/ Delete
    \/ Filter
    \/ Remove
    \/ Set
    \/ UpdateItemInput
    \/ DeleteRunWithContext
    \/ PutRunWithContext
    \/ UpdateRunWithContext
    \/ QueryEachWithContext
    \/ ScanEachWithContext

Spec == Init /\ [][Next]_vars

TxInit ==
    /\ NoQuery
    /\ NoScan
    /\ NoAdds
    /\ attributes = NoAttributes
    /\ op = "update"
    /\ InitExpr
    /\ txKind \in {"write", "get", "plain"}
    /\ txAttempts \in IF txKind = "plain"
                      THEN {defaultMaxAttempts}
                      ELSE {n \in 0..MaxTxAttempts : ~WithTransactAttemptsPanics(n)}
    /\ items \in IF txKind = "plain" THEN GetBuilders ELSE ItemLists
    /\ backend \in IF txKind = "plain" THEN GetScripts ELSE Scripts
    /\ InitTx

TxNext ==
    \/ TxBegin
    \/ TxCall
    \/ TxWaitTimeout
    \/ TxWaitCancelled
    \/ GetScanWithContext
    \/ CtxCancel

SpecTx == TxInit /\ [][TxNext]_vars

ScanInit ==
    /\ NoQuery
    /\ NoAdds
    /\ attributes = NoAttributes
    /\ op = "scan"
    /\ InitExpr
    /\ txKind = "write"
    /\ txAttempts = defaultMaxAttempts
    /\ items = <<>>
    /\ backend = <<>>
    /\ InitTx
    /\ sErr \in {NilErr, ErrNotEnoughValues}
    /\ totalSegments \in 0..MaxSegments
    /\ segments \in [0..((IF totalSegments = 0 THEN 1 ELSE totalSegments) - 1) -> ScanPageLists]
    /\ scanPc = "start"
    /\ workers = <<>>
    /\ ctxCancelled = FALSE
    /\ errs = <<>>
    /\ scanRet = NoScanReturn
    /\ tableReadUnits = 0

ScanNext ==
    \/ EachBegin
    \/ scanSegmentCall
    \/ CallbackEnter
    \/ CallbackReturn
    \/ EachReturn

SpecScan == ScanInit /\ [][ScanNext]_vars

\* the scheduler runs every goroutine that can take a step, and every backend
\* call and callback returns
SpecScanFair == SpecScan /\ WF_vars(ScanNext)

CapInit ==
    /\ NoQuery
    /\ NoScan
    /\ attributes = NoAttributes
    /\ op = "scan"
    /\ InitExpr
    /\ txKind = "write"
    /\ txAttempts = defaultMaxAttempts
    /\ items = <<>>
    /\ backend = <<>>
    /\ InitTx
    /\ capIn \in [1..MaxAdders -> Capacities]
    /\ capPc = [a \in 1..MaxAdders |-> "start"]
    /\ mux = NoHolder
    /\ loaded = [a \in 1..MaxAdders |-> 0]
    /\ ReadUnits = 0
    /\ WriteUnits = 0
    /\ capacityUnits = 0
    /\ clonePc = "idle"
    /\ clones = 0
    /\ snapshot = ZeroCapacity

CapNext ==
    \/ addRead
    \/ addWrite
    \/ addLock
    \/ addLoad
    \/ addStore
    \/ addUnlock
    \/ safeCloneLock
    \/ safeCloneReturn

SpecCap == CapInit /\ [][CapNext]_vars

QueryInit ==
    /\ NoScan
    /\ NoAdds
    /\ attributes = NoAttributes
    /\ op = "query"
    /\ InitExpr
    /\ txKind = "write"
    /\ txAttempts = defaultMaxAttempts
    /\ items = <<>>
    /\ backend = <<>>
    /\ InitTx
    /\ qErr \in {NilErr, ErrNotEnoughValues}
    /\ qLimit \in QueryLimits
    /\ qCapture \in BOOLEAN
    /\ qTotal \in 0..MaxResult
    /\ qPageSize \in QueryPageSizes
    /\ qRun = 1
    /\ qPc = "start"
    /\ qStartKey = NilKey
    /\ qLeft = <<>>
    /\ qRet = <<>>
    /\ qReported = NilKey
    /\ delivered = <<>>
    /\ qResponses = <<0, 0>>
    /\ qTableUnits = 0
    /\ qRequestUnits = 0

QueryNext ==
    \/ QueryBegin
    \/ QueryCall
    \/ QueryItem
    \/ QueryResume

SpecQuery == QueryInit /\ [][QueryNext]_vars

(***************************************************************************)
(* Properties of the expression and its builder, checked under Spec.       *)
(***************************************************************************)
AccumulatorTexts ==
    <<Adds.text, Conditions.text, Deletes.text, Filters.text, Removes.text, Sets.text>>

\* C1: every name reference (static by wire name, static by field name, or
\* dynamic) that resolves to the same wire attribute name is rendered with
\* the same alias, and Names holds exactly one alias whose value is that name.
C1_AliasStability ==
    /\ \A r1 \in refs : \A r2 \in refs : r1[2] = r2[2] => r1[3] = r2[3]
    /\ \A r \in refs : \E k \in DOMAIN Names : Names[k] = r[2]
    /\ \A k1 \in DOMAIN Names : \A k2 \in DOMAIN Names :
          Names[k1] = Names[k2] => k1 = k2

\* C2: the keys of Values are exactly :v1..:vN for the N values bound so far,
\* the i-th value bound (in call order, left to right in a template) holds
\* alias :vi, and no alias is reused, even for equal values.
C2_ValueAliasMonotonic ==
    LET N == Len(bound)
    IN  /\ index = N
        /\ DOMAIN Values = {<<":", "v">> \o Itoa(i) : i \in 1..N}
        /\ Cardinality(DOMAIN Values) = N
        /\ \A i \in 1..N :
              /\ boundAlias[i] = <<":", "v">> \o Itoa(i)
              /\ Values[boundAlias[i]] = bound[i]

\* two equal values were bound by two calls
C2_Witness ==
    /\ calls = 2
    /\ Len(bound) >= 2
    /\ bound[1] = bound[2]
    /\ boundAlias[1] # boundAlias[2]

\* C9: when several clause calls failed, the terminal call reports the error
\* of the first failing call.
C9_FirstErrorWins ==
    (op = "update" /\ output.called /\ failures # <<>>) => output.err = failures[1]

\* C10: once a clause call has failed, every later clause call leaves Names,
\* Values and all clause accumulators unchanged.
C10_LaterCallsAreNoOps ==
    [][err # NilErr => UNCHANGED <<Names, Values, AccumulatorTexts>>]_vars

\* the value placeholders and dynamic-name tokens of a template
RECURSIVE CountPlaceholders(_)
CountPlaceholders(expr) ==
    IF expr = <<>> THEN 0
    ELSE (IF Head(expr) = "?" THEN 1 ELSE 0) + CountPlaceholders(Tail(expr))

\* the clause calls that failed, by their place in the history
FailedCalls == {i \in 1..Len(history) : history[i].err # NilErr}

\* C11: on every operation builder (Put, Delete, Update, Query, Scan), when a
\* clause-adding call failed the terminal call returns an error and hands no
\* request to the backend.
C11_TerminalSurfacesBuildError ==
    (output.called /\ failures # <<>>) => (output.err # NilErr /\ sent = <<>>)

\* C12: a clause call whose template holds more placeholders (value
\* placeholders and dynamic-name tokens) than values were supplied fails with
\* an error of kind MismatchedValueCount, and the terminal call reports that
\* error (when the call is the first that failed).
C12_TooFewValues ==
    \A i \in 1..Len(history) :
        CountPlaceholders(history[i].expr) > Len(history[i].args)
        => /\ IsMismatchedValueCountError(history[i].err)
           /\ (output.called /\ i = SetMin(FailedCalls)) => output.err = history[i].err

\* C13: a clause call handed more values than its template consumes fails
\* with an error of kind MismatchedValueCount.
C13_TooManyValues ==
    \A i \in 1..Len(history) :
        Len(history[i].args) > CountPlaceholders(history[i].expr)
        => IsMismatchedValueCountError(history[i].err)

\* the static names of a template: the alphanumeric run after a # that no ?
\* ends
RECURSIVE StaticNames(_, _, _)
StaticNames(expr, inName, name) ==
    IF expr = <<>>
    THEN IF inName /\ name # <<>> THEN {name} ELSE {}
    ELSE LET v == Head(expr)
         IN  IF ~inName
             THEN StaticNames(Tail(expr), v = "#", <<>>)
             ELSE IF isAlphaNumeric(v)
             THEN StaticNames(Tail(expr), TRUE, Append(name, v))
             ELSE IF v = "?"
             THEN StaticNames(Tail(expr), FALSE, <<>>)
             ELSE {name} \cup StaticNames(Tail(expr), v = "#", <<>>)

\* the name is the wire name or the field name of an attribute of the schema
KnownName(attrs, name) ==
    \E i \in 1..Len(attrs) : name \in {attrs[i].AttributeName, attrs[i].FieldName}

\* the clause calls whose template holds a static name the schema does not know
UnknownNameCalls ==
    {i \in 1..Len(history) :
        \E n \in StaticNames(history[i].expr, FALSE, <<>>) : ~KnownName(attributes, n)}

\* C14: on a builder created with a non-empty schema, a static #name that is
\* neither the wire name nor the field name of an attribute makes the clause
\* call, and the operation, fail with an error of kind InvalidFieldName.
C14_StrictNameResolution ==
    (attributes # NoAttributes)
    => \A i \in UnknownNameCalls :
          /\ IsInvalidFieldNameError(history[i].err)
          /\ output.called => IsInvalidFieldNameError(output.err)

\* the texts joined by single spaces
RECURSIVE JoinSpace(_)
JoinSpace(texts) ==
    IF texts = <<>> THEN <<>>
    ELSE IF Len(texts) = 1 THEN Head(texts)
    ELSE Head(texts) \o <<" ">> \o JoinSpace(Tail(texts))

\* the sections that hold text, in the order Set, Remove, Add, Delete
UpdateSections ==
    SelectSeq(<<Sets.text, Removes.text, Adds.text, Deletes.text>>,
              LAMBDA t : t # <<>>)

\* C15: after any Set/Remove/Add/Delete calls, in any order, UpdateExpression()
\* is the non-empty sections in the order Set, Remove, Add, Delete, separated
\* by exactly one space, with no leading and no trailing whitespace.
C15_UpdateClauseOrder ==
    LET r == UpdateExpression(Sets, Removes, Adds, Deletes)
    IN  ~r.nil
        => /\ r.s = JoinSpace(UpdateSections)
           /\ r.s # <<>> =>
                 /\ Head(r.s) \notin WhiteSpace
                 /\ r.s[Len(r.s)] \notin WhiteSpace

\* C24: UpdateExpression() returns nil whenever the four update accumulators
\* (Sets, Removes, Adds, Deletes) hold no text, after any clause calls, failed
\* ones included.
C24_NoExpressionWhenEmpty ==
    (Sets.text = <<>> /\ Removes.text = <<>> /\ Adds.text = <<>> /\ Deletes.text = <<>>)
    => UpdateExpression(Sets, Removes, Adds, Deletes).nil

\* C27: a clause call that returns an error leaves the expression's Names,
\* Values, value counter and the text of every clause accumulator as they
\* were before the call.
C27_FailedCallIsAtomic ==
    [][(Len(history') = Len(history) + 1 /\ history'[Len(history')].err # NilErr)
       => UNCHANGED <<Names, Values, index, AccumulatorTexts>>]_vars

(***************************************************************************)
(* Properties of the coordinator, checked under SpecTx.                    *)
(***************************************************************************)
\* the reason codes that tell a conflict
ConflictCodes == {"TransactionConflict", "TransactionConflictException"}

\* a cancellation that carries a conflict reason code
IsConflict(answer) ==
    /\ answer.type = "TransactionCanceledException"
    /\ \E i \in 1..Len(answer.reasons) : answer.reasons[i] \in ConflictCodes

\* the number of conflicts the script starts with
LeadingConflicts(script) ==
    CHOOSE k \in 0..Len(script) :
        /\ \A i \in 1..k : IsConflict(script[i])
        /\ k = Len(script) \/ ~IsConflict(script[k + 1])

\* the call ran to its end with builders that produced their items and a
\* context that was not cancelled
RanUndisturbed == pc = "done" /\ FailingItems(items) = {} /\ ~ctxDone

\* C3: when the backend answers the first k attempts (k < max attempts) with
\* a conflict cancellation and the next with success, the write coordinator
\* makes exactly k+1 backend calls and returns the output with a nil error.
C3_ConflictRetry ==
    LET k == LeadingConflicts(backend)
    IN  (/\ txKind = "write"
         /\ RanUndisturbed
         /\ k < txAttempts
         /\ BackendAnswer(backend, k + 1) = AnswerOK)
        => /\ Len(requests) = k + 1
           /\ ret.ok
           /\ ret.err = TxNilErr

\* three conflicts, then success on the fourth and last attempt
C3_Witness ==
    /\ txKind = "write"
    /\ RanUndisturbed
    /\ txAttempts = 4
    /\ LeadingConflicts(backend) = 3
    /\ backend[4] = AnswerOK
    /\ Len(requests) = 4
    /\ ret.ok

\* C4: an attempt that fails with an error that is no cancellation carrying a
\* conflict code is the last backend call, and its error is what the
\* coordinator (write or get) returns.
C4_NoRetryOnOtherErrors ==
    \A n \in 1..Len(requests) :
        LET a == BackendAnswer(backend, n)
        IN  (a # AnswerOK /\ ~IsConflict(a))
            => /\ n = Len(requests)
               /\ pc = "done"
               /\ ret.done
               /\ ~ret.ok
               /\ ret.err = ErrOf(a, n)

\* a write whose second attempt was cancelled for a reason that is no conflict
C4_Witness ==
    /\ txKind = "write"
    /\ pc = "done"
    /\ Len(requests) = 2
    /\ backend[2] = AnswerCanceled(<<NilCode, "ValidationError">>)
    /\ ret.err = ErrOf(backend[2], 2)

\* C5: when every attempt fails with a conflict cancellation and the context
\* is never cancelled, the write coordinator makes exactly max-attempts
\* backend calls and returns the conflict error of the last attempt.
C5_RetryExhaustion ==
    (/\ txKind = "write"
     /\ RanUndisturbed
     /\ \A i \in 1..txAttempts : IsConflict(BackendAnswer(backend, i)))
    => /\ Len(requests) = txAttempts
       /\ ~ret.ok
       /\ txAttempts > 0 => ret.err = ErrOf(backend[txAttempts], txAttempts)

\* four conflicts, the last unlike the first
C5_Witness ==
    /\ txKind = "write"
    /\ RanUndisturbed
    /\ txAttempts = 4
    /\ \A i \in 1..4 : IsConflict(backend[i])
    /\ backend[1] # backend[4]
    /\ Len(requests) = 4
    /\ ret.err = ErrOf(backend[4], 4)

\* C6: one call of the write coordinator invokes the token function exactly
\* once, and every backend attempt carries that token and the same ordered
\* item list.
C6_TokenReuse ==
    (txKind = "write" /\ pc # "start")
    => /\ tokenCalls = 1
       /\ \A i \in 1..Len(requests) :
             /\ requests[i].token = input.token
             /\ requests[i].token = requests[1].token
             /\ requests[i].TransactItems = [j \in 1..Len(items) |-> Tx(items[j]).item]

\* a write of two items that was retried twice
C6_Witness ==
    /\ txKind = "write"
    /\ Len(items) = 2
    /\ Len(requests) = 3

\* C7: when the context is cancelled while the coordinator (write or get) is
\* waiting between attempts, no further backend call is made and the call
\* returns the context's error.
C7_CancelDuringBackoff ==
    cancelledAt.pc = "wait"
    => /\ Len(requests) = cancelledAt.calls
       /\ pc \in {"wait", "done"}
       /\ pc = "done" => (ret.err = CtxErr /\ ~ret.ok)

\* a get cancelled in its second wait has returned
C7_Witness ==
    /\ txKind = "get"
    /\ cancelledAt = [pc |-> "wait", calls |-> 2]
    /\ pc = "done"
    /\ ret.err = CtxErr

\* C8: for every backend error the get coordinator takes the decision the
\* write coordinator takes: both retry on the same cancellation reason codes.
C8_SameRetryDecision ==
    \A n \in 1..Len(requests) :
        LET a == BackendAnswer(backend, n)
        IN  a # AnswerOK => (WriteRetries(a) <=> GetRetries(a))

\* C16: when TransactGetItems succeeds for n get builders, the request lists
\* the n items in input order, and every builder i had Decode invoked exactly
\* once, with the response at position i.
C16_PositionalGetDecoding ==
    (txKind = "get" /\ pc = "done" /\ ret.ok)
    => /\ Len(requests[Len(requests)].TransactItems) = Len(items)
       /\ \A i \in 1..Len(items) :
             requests[Len(requests)].TransactItems[i].name = items[i].name
       /\ Len(decoded) = Len(items)
       /\ \A i \in 1..Len(decoded) :
             /\ decoded[i].get = i
             /\ decoded[i].response.pos = i

\* a get of two items that succeeded at its second attempt
C16_Witness ==
    /\ txKind = "get"
    /\ pc = "done"
    /\ ret.ok
    /\ Len(items) = 2
    /\ Len(requests) = 2
    /\ Len(decoded) = 2

\* the item of the request that the i-th response answers
SentItem(i) ==
    IF txKind = "plain" THEN requests[1] ELSE requests[Len(requests)].TransactItems[i]

C18_BuilderFailureIsFatal ==
    LET bad == {i \in 1..Len(items) : items[i].txErr}
    IN  (txKind \in {"write", "get"} /\ pc # "start" /\ bad # {})
        => /\ pc = "done"
           /\ requests = <<>>
           /\ waits = <<>>
           /\ ret.done
           /\ ~ret.ok
           /\ ret.err = TxBuildErr(SetMin(bad))

\* a get whose second builder cannot render its key has returned
C18_Witness ==
    /\ txKind = "get"
    /\ items = <<ItemOK("a"), ItemBad("b")>>
    /\ pc = "done"
    /\ ret.err = TxBuildErr(2)
    /\ requests = <<>>


\* C25: WithTransactAttempts(n) panics for every n outside 1..9: a
\* coordinator that exists has an attempt count n with 0 < n < 10.
C25_AttemptsInRange ==
    txKind \in {"write", "get"} => (0 < txAttempts /\ txAttempts < 10)

\* C28: a coordinator returns a nil error only if a backend attempt of that
\* call succeeded.
C28_SuccessNeedsACall ==
    (txKind \in {"write", "get"} /\ ret.done /\ ret.err = TxNilErr)
    => \E i \in 1..Len(requests) : BackendAnswer(backend, i) = AnswerOK

\* C29: a coordinator call that returned after a attempts waited a - 1 times
\* in full, the i-th wait for getTimeout(i): no wait follows the last attempt.
C29_WaitsBetweenAttempts ==
    (txKind \in {"write", "get"} /\ ret.done /\ requests # <<>>)
    => /\ Len(waits) = Len(requests) - 1
       /\ \A i \in 1..Len(waits) : waits[i] = getTimeout(i)

(***************************************************************************)
(* Properties of the segmented scan, checked under SpecScan.               *)
(***************************************************************************)
\* the workers that are inside the caller's callback
InCallback == {w \in DOMAIN workers : workers[w].pc = "callback"}

\* C19: in a scan split into several segments the shared callback never
\* executes in two workers at the same time.
C19_SerializedCallback == Cardinality(InCallback) <= 1

\* the workers whose scanSegment ended on a stop, a callback error or a
\* failed backend call
EndedEarly == {w \in DOMAIN workers :
                  workers[w].pc = "done" /\ (workers[w].stop \/ workers[w].err # NilErr)}

\* C20: once a worker's callback returned stop or an error, or its backend
\* call failed, the shared context is cancelled while siblings still run.
C20_SiblingCancellation ==
    \A w \in EndedEarly :
        (\E v \in DOMAIN workers : v # w /\ workers[v].pc \notin {"done", "send"})
        => ctxCancelled

\* the workers whose callback returned false, nil
Stopped == {w \in DOMAIN workers : workers[w].stop}

\* the workers that ended on an error of the backend or of the callback
\* (an error other than the cancellation of the scan's own context)
OwnErrors == {w \in DOMAIN workers : workers[w].err \notin {NilErr, ErrCanceled}}

\* C21: a scan that a callback stopped, and in which no backend call and no
\* callback failed on its own, returns nil.
C21_StopIsNotAnError ==
    (scanRet.done /\ Stopped # {} /\ OwnErrors = {}) => scanRet.err = NilErr

(***************************************************************************)
(* Properties of ConsumedCapacity, checked under SpecCap.                  *)
(***************************************************************************)
\* what a response reports for a field, in half units (nothing if absent)
Reported(in, f) == IF in.nil \/ in[f] = NilNum THEN 0 ELSE in[f]

RECURSIVE SumReported(_, _)
SumReported(S, f) ==
    IF S = {} THEN 0
    ELSE LET a == CHOOSE x \in S : TRUE
         IN  Reported(capIn[a], f) + SumReported(S \ {a}, f)

RECURSIVE SumWhole(_, _)
SumWhole(S, f) ==
    IF S = {} THEN 0
    ELSE LET a == CHOOSE x \in S : TRUE
         IN  ToInt64(Reported(capIn[a], f)) + SumWhole(S \ {a}, f)

\* the add calls that are past their update of the field
PastRead == {a \in DOMAIN capPc : capPc[a] # "start"}
PastWrite == {a \in DOMAIN capPc : capPc[a] \notin {"start", "write"}}
PastUnits == {a \in DOMAIN capPc : capPc[a] \in {"unlock", "done"}}

AllAdded == \A a \in DOMAIN capPc : capPc[a] = "done"

\* C22 as stated: once every add has returned, the two counters and the
\* aggregate equal the sums of what the responses reported.
C22_SumOfContributions ==
    (DOMAIN capPc # {} /\ AllAdded)
    => /\ 2 * ReadUnits = SumReported(DOMAIN capPc, "read")
       /\ 2 * WriteUnits = SumReported(DOMAIN capPc, "write")
       /\ capacityUnits = SumReported(DOMAIN capPc, "units")

\* C22: under any interleaving of add calls, ReadUnits and WriteUnits are the
\* sums of the whole units of the contributions added so far (int64 drops
\* the fraction of each contribution), the aggregate is the exact sum of
\* the capacity units stored so far, and no copy made earlier exceeds them.
C22_NoLostUpdates ==
    /\ ReadUnits = SumWhole(PastRead, "read")
    /\ WriteUnits = SumWhole(PastWrite, "write")
    /\ capacityUnits = SumReported(PastUnits, "units")
    /\ snapshot.ReadUnits <= ReadUnits
    /\ snapshot.WriteUnits <= WriteUnits
    /\ snapshot.capacityUnits <= capacityUnits

\* two add calls contend for the aggregate: one has stored, the other waits
\* for the mutex, and a fractional read was added
C22_Witness ==
    \E a, b \in DOMAIN capPc :
        /\ capPc[a] = "unlock" /\ capPc[b] = "lock"
        /\ capIn[b].read = 1

(***************************************************************************)
(* Properties of the paged query, checked under SpecQuery.                 *)
(***************************************************************************)
\* C23: every successful backend response adds its consumed capacity to the
\* table's accumulator, and to the capture when one was supplied to that
\* operation: once a query has returned, the table holds one unit per
\* response of both queries and the capture one per response of its own.
C23_AccountingScope ==
    qPc = "done"
    => /\ qTableUnits = qResponses[1] + qResponses[2]
       /\ qRequestUnits = IF qCapture THEN qResponses[1] ELSE 0

\* C26: a query started from the key that the first query reported goes on
\* where the first one ended: the items the two queries hand to the callback
\* are the items of the result in order, none skipped and none repeated.
C26_QueryResume ==
    (qRun = 2 /\ qRet[1] = NilErr)
    => \A i \in 1..Len(delivered) : delivered[i] = i

\* the workers that sent an error to errs
Reporters == {w \in DOMAIN workers : workers[w].pc = "done" /\ workers[w].err # NilErr}

\* EachWithContext has returned only if all segments' workers have finished;
\* errs holds one error per worker that failed; no worker is blocked sending
FanOutClean ==
    /\ (scanRet.done /\ sErr = NilErr)
       => /\ DOMAIN workers = 0..(totalSegments - 1)
          /\ \A w \in DOMAIN workers : workers[w].pc = "done"
    /\ Len(errs) = Cardinality(Reporters)
    /\ \A w \in DOMAIN workers : workers[w].pc # "send"

\* C30: when every backend call and callback returns, EachWithContext returns,
\* and only after all N workers have finished; each worker reports at most
\* one error and none blocks sending it.
C30_FanOutTerminates == []FanOutClean /\ <>(scanPc = "done")

\* a scan that returned after both of its workers reported an error
C30_Witness ==
    /\ scanRet.done
    /\ totalSegments = 2
    /\ Len(errs) = 2
    /\ \A w \in DOMAIN workers : workers[w].pc = "done"

=============================================================================
